---- MODULE Spec2Model ----
(***************************************************************************)
(* A model of the SEV-SNP attestation shim (three deployment variants of   *)
(* package main) and of the API key verifier (package key).                *)
(*                                                                         *)
(* Text on which the code works character by character (flag values,      *)
(* request paths, base64 and hex text) is a sequence of one-character      *)
(* strings; text that is only compared whole (methods, header names) is a  *)
(* string.  Bytes are the integers 0..255.                                 *)
(***************************************************************************)
EXTENDS Integers, Sequences, FiniteSets, TLC

VARIABLES
  variant,      \* which main(): "main" (flags, with -H), "cache" (flags, with a
                \* certificate cache), "yaml" (a YAML config file)
  flagP,        \* value of -p (variants main, cache)
  flagH,        \* value of -H (variant main)
  cfgPaths,     \* config.Paths after yaml.Unmarshal (variant yaml)
  pc,           \* position of main(): start, configured, certified, attested, listening, exited
  fatal,        \* the step whose failure ended the process ("": none)
  headerMap,    \* set of <<key, value>> pairs: the map main() builds from -H
  paths,        \* the list the "/" handler ranges over
  tlsCert,      \* the certificate certmagic currently holds for the domain (0: none)
  cert,         \* the certificate main() read with GetCertificate (0: none)
  quoteData,    \* the [64]byte handed to GetRawQuote (<<>>: no quote requested)
  att,          \* the attestation document main() holds (NoDoc: none)
  builds,       \* number of attestation documents built so far
  accepted,     \* TRUE once a request was accepted
  req,          \* the request handled last
  resp,         \* the response sent for it
  forwarded,    \* the request the reverse proxy sent upstream for it (NoForward: none)
  verifier,     \* the Verifier: [ok, publicKey]
  apiKey,       \* the argument of Verify
  now,          \* wall clock at the Verify call: [sec, nsec]
  result        \* what Verify did: "none" before the call, an outcome after it

shimVars == <<variant, flagP, flagH, cfgPaths, pc, fatal, headerMap, paths, tlsCert, cert,
              quoteData, att, builds, accepted, req, resp, forwarded>>
keyVars == <<verifier, apiKey, now, result>>
vars == <<shimVars, keyVars>>

----------------------------------------------------------------------------
(* Small helpers on sequences.                                             *)

\* The identity on sequences; it makes TLC compute s once, as a tuple.
Tuple(s) == SubSeq(s, 1, Len(s))

\* Go's copy(dst, src) into a zero-initialised array of n bytes.
CopyInto(n, src) == Tuple([i \in 1..n |-> IF i <= Len(src) THEN src[i] ELSE 0])

----------------------------------------------------------------------------
(* strings.Split(s, sep) for a one-character separator: the pieces between *)
(* the separators, always at least one piece; Split("", sep) is [""].      *)

RECURSIVE Split(_, _)
Split(s, sep) ==
  IF \E i \in 1..Len(s) : s[i] = sep
  THEN LET i == CHOOSE k \in 1..Len(s) : s[k] = sep /\ \A j \in 1..(k-1) : s[j] # sep
       IN  <<SubSeq(s, 1, i-1)>> \o Split(SubSeq(s, i+1, Len(s)), sep)
  ELSE <<s>>

----------------------------------------------------------------------------
(* encoding/hex and encoding/base64, computed as the library computes them. *)

HexTable == <<"0","1","2","3","4","5","6","7","8","9","a","b","c","d","e","f">>

\* hex.EncodeToString: two characters per byte, high nibble first.
hexEncodeToString(src) ==
  Tuple([i \in 1..(2 * Len(src)) |->
     LET v == src[(i + 1) \div 2]
     IN  IF i % 2 = 1 THEN HexTable[(v \div 16) + 1] ELSE HexTable[(v % 16) + 1]])

\* The byte (ASCII code) of a character of hex text, as copy() of a Go string reads it.
HexOrd(c) ==
  LET k == CHOOSE i \in 1..16 : HexTable[i] = c
  IN  IF k <= 10 THEN 47 + k ELSE 86 + k

StringBytes(s) == Tuple([i \in 1..Len(s) |-> HexOrd(s[i])])

Upper == <<"A","B","C","D","E","F","G","H","I","J","K","L","M",
           "N","O","P","Q","R","S","T","U","V","W","X","Y","Z">>
Lower == <<"a","b","c","d","e","f","g","h","i","j","k","l","m",
           "n","o","p","q","r","s","t","u","v","w","x","y","z">>
Digits == <<"0","1","2","3","4","5","6","7","8","9">>

\* base64.StdEncoding pads with "="; base64.RawURLEncoding does not pad.
StdAlphabet == Upper \o Lower \o Digits \o <<"+", "/">>
URLAlphabet == Upper \o Lower \o Digits \o <<"-", "_">>

Pow64(k) == IF k = 0 THEN 1 ELSE IF k = 1 THEN 64 ELSE IF k = 2 THEN 4096 ELSE 262144

\* (*Encoding).EncodeToString: three bytes give four characters; a last group of
\* one or two bytes gives two or three characters, then padding when padded.
base64Encode(alphabet, padded, src) ==
  LET n    == Len(src)
      rem  == n % 3
      tail == IF rem = 0 THEN 0 ELSE IF padded THEN 4 ELSE rem + 1
      at(j) == IF j <= n THEN src[j] ELSE 0
  IN  Tuple([p \in 1..(4 * (n \div 3) + tail) |->
         LET g   == (p - 1) \div 4
             k   == (p - 1) % 4
             val == at(3*g + 1) * 65536 + at(3*g + 2) * 256 + at(3*g + 3)
         IN  IF 3*g + k > n THEN "=" ELSE alphabet[((val \div Pow64(3 - k)) % 64) + 1]])

\* (*Encoding).DecodeString, not strict: ok is FALSE on a character outside the
\* alphabet, on misplaced or missing padding, and on a lone trailing character.
base64Decode(alphabet, padded, s) ==
  LET len   == Len(s)
      npad  == IF padded /\ len >= 1 /\ s[len] = "="
               THEN (IF len >= 2 /\ s[len - 1] = "=" THEN 2 ELSE 1) ELSE 0
      m     == len - npad
      idx(c) == (CHOOSE i \in 1..64 : alphabet[i] = c) - 1
      ok    == /\ \A i \in 1..m : \E j \in 1..64 : alphabet[j] = s[i]
               /\ m % 4 # 1
               /\ IF padded THEN len % 4 = 0 /\ npad = (4 - (m % 4)) % 4
                            ELSE TRUE
      n     == 3 * (m \div 4) + (IF m % 4 = 0 THEN 0 ELSE (m % 4) - 1)
      at(j) == IF j <= m THEN idx(s[j]) ELSE 0
  IN  [ok   |-> ok,
       data |-> IF ~ok THEN <<>>
                ELSE Tuple([q \in 1..n |->
                        LET g   == (q - 1) \div 3
                            k   == (q - 1) % 3
                            val == at(4*g + 1) * 262144 + at(4*g + 2) * 4096
                                   + at(4*g + 3) * 64 + at(4*g + 4)
                        IN  IF k = 0 THEN val \div 65536
                            ELSE IF k = 1 THEN (val \div 256) % 256
                            ELSE val % 256])]

----------------------------------------------------------------------------
(* net/http's ResponseWriter.  hdr is the handler's header map (a header   *)
(* name to its list of values); WriteHeader commits the status and a       *)
(* snapshot of hdr, and only its first call does; what the handler does to *)
(* hdr afterwards is not sent.                                             *)

HeaderNames == {"Access-Control-Allow-Origin", "Access-Control-Allow-Methods",
                "Access-Control-Allow-Headers", "Content-Type",
                "X-Content-Type-Options"}

NoHeaders == [h \in HeaderNames |-> <<>>]

NoDoc == [Format |-> "", Body |-> <<>>]

\* A piece of body: text, or the JSON object json.Encoder writes for a document.
TextChunk(t) == [kind |-> "text", text |-> t, doc |-> NoDoc]
JSONChunk(d) == [kind |-> "json", text |-> "\n", doc |-> d]

NewWriter == [hdr |-> NoHeaders, wroteHeader |-> FALSE, status |-> 0,
              sent |-> NoHeaders, body |-> <<>>, calls |-> 0]

HeaderSet(w, k, v) == [w EXCEPT !.hdr[k] = <<v>>]
HeaderAdd(w, k, v) == [w EXCEPT !.hdr[k] = Append(@, v)]
HeaderDel(w, k)    == [w EXCEPT !.hdr[k] = <<>>]

\* (*response).WriteHeader: a second call is logged as superfluous and ignored.
WriteHeader(w, code) ==
  IF w.wroteHeader THEN [w EXCEPT !.calls = @ + 1]
  ELSE [w EXCEPT !.wroteHeader = TRUE, !.status = code, !.sent = w.hdr, !.calls = @ + 1]

\* http.DetectContentType of the bodies written here (JSON text, plain text).
DetectContentType(chunk) == "text/plain; charset=utf-8"

\* (*response).Write: commits status 200 when no status was written; the first
\* write fills in a sniffed Content-Type when the committed headers have none.
Write(w, chunk) ==
  LET w1 == IF w.wroteHeader THEN w
            ELSE [w EXCEPT !.wroteHeader = TRUE, !.status = 200, !.sent = w.hdr]
      w2 == IF w1.body = <<>> /\ w1.sent["Content-Type"] = <<>>
            THEN [w1 EXCEPT !.sent["Content-Type"] = <<DetectContentType(chunk)>>]
            ELSE w1
  IN  [w2 EXCEPT !.body = Append(@, chunk)]

\* What the server sends once the handler returned.
Response(w) ==
  LET w1 == IF w.wroteHeader THEN w
            ELSE [w EXCEPT !.wroteHeader = TRUE, !.status = 200, !.sent = w.hdr]
  IN  [status |-> w1.status, header |-> w1.sent, body |-> w1.body, calls |-> w1.calls]

\* http.Error: plain-text headers, the status, then the message and a line end.
httpError(w, msg, code) ==
  LET w1 == HeaderSet(w, "Content-Type", "text/plain; charset=utf-8")
      w2 == HeaderSet(w1, "X-Content-Type-Options", "nosniff")
      w3 == WriteHeader(w2, code)
  IN  Write(Write(w3, TextChunk(msg)), TextChunk("\n"))

----------------------------------------------------------------------------
(* cors(w, r).  Its return ends cors, not the handler that called it.      *)

corsSet(w) ==
  HeaderSet(HeaderSet(HeaderSet(w,
    "Access-Control-Allow-Origin", "*"),
    "Access-Control-Allow-Methods", "*"),
    "Access-Control-Allow-Headers", "*")

corsDel(w) ==
  HeaderDel(HeaderDel(HeaderDel(w,
    "Access-Control-Allow-Origin"),
    "Access-Control-Allow-Methods"),
    "Access-Control-Allow-Headers")

cors(v, w, r) ==
  LET w1 == IF v = "main" THEN corsSet(w) ELSE corsSet(corsDel(w))
  IN  IF r.method = "OPTIONS" THEN WriteHeader(w1, 200) ELSE w1

----------------------------------------------------------------------------
(* The two handlers main() registers.                                      *)

NoForward == [method |-> "", path |-> <<>>, scheme |-> "", host |-> "",
              hostHeader |-> "", added |-> {}]

\* The Director: the request as the reverse proxy sends it upstream.
Director(v, r, hm) ==
  [method |-> r.method, path |-> r.path, scheme |-> "http", host |-> "127.0.0.1:8080",
   hostHeader |-> IF v = "main" THEN "" ELSE "localhost",
   added |-> IF v = "main" THEN hm ELSE {}]

\* httputil.ReverseProxy.ServeHTTP once the upstream answered with status up
\* (502: the upstream could not be reached, the proxy's own answer).
proxyServeHTTP(w, up) ==
  IF up = 502 THEN WriteHeader(w, 502)
  ELSE Write(WriteHeader(HeaderAdd(w, "Content-Type", "application/octet-stream"), up),
             TextChunk("upstream"))

\* The path gate of the "/" handler.
Allowed(ps, path) == \E i \in 1..Len(ps) : path = ps[i]

rootHandler(v, ps, hm, r, up) ==
  LET w1 == IF v = "main" THEN cors(v, NewWriter, r) ELSE NewWriter
  IN  IF Len(ps) > 0 /\ ~Allowed(ps, r.path)
      THEN [w |-> httpError(w1, "shim: 403", 403), fwd |-> NoForward]
      ELSE [w |-> proxyServeHTTP(w1, up), fwd |-> Director(v, r, hm)]

attestationHandler(v, doc, r) ==
  LET w1 == cors(v, NewWriter, r)
      w2 == WriteHeader(w1, 200)
      w3 == HeaderSet(w2, "Content-Type", "application/json")
  IN  Write(w3, JSONChunk(doc))

----------------------------------------------------------------------------
(* Certificates, the fingerprint and the attestation document.             *)

\* Number of distinct certificates the certificate source can issue.
NumCerts == 2

Certs == 1..NumCerts

\* cert.Leaf.Raw: the DER bytes of certificate c.
LeafRaw(c) == <<48, 130, 1, c>>

RECURSIVE WeightedSum(_, _, _)
WeightedSum(raw, j, i) ==
  IF j > Len(raw) THEN 0 ELSE raw[j] * (j + i) + WeightedSum(raw, j + 1, i)

\* sha256.Sum256 stands for a digest of 32 bytes that is a function of the input
\* alone and differs between the certificates modelled; its bytes are not SHA-256.
Sum256(raw) == Tuple([i \in 1..32 |-> (WeightedSum(raw, 1, i) + 7 * i) % 256])

\* abi.ReportSize and the offset of REPORT_DATA in the report (go-sev-guest/abi).
ReportSize == 1184
ReportDataOffset == 80

\* What the quote provider returns for userData: the signed report, which carries
\* userData in its REPORT_DATA field, followed by extra bytes of certificate table.
GetRawQuote(userData, extra) ==
  Tuple([i \in 1..(ReportSize + extra) |->
     IF i > ReportDataOffset /\ i <= ReportDataOffset + 64
     THEN userData[i - ReportDataOffset]
     ELSE (i * 7) % 256])

\* UserData with the copy cut at the size of the digest, 32, not of its hex text.
UserDataDigestSized(certFP) == CopyInto(64, StringBytes(SubSeq(certFP, 1, 32)))

\* The [64]byte attestationReport fills from the fingerprint text.
UserData(certFP) == CopyInto(64, StringBytes(certFP))

\* How the quote provider may behave: absent, failing, or returning the report
\* followed by extra bytes.
QuoteProviders == {[kind |-> "noProvider", extra |-> 0], [kind |-> "quoteError", extra |-> 0],
                   [kind |-> "ok", extra |-> 0], [kind |-> "ok", extra |-> 16]}

\* attestationReport(certFP) when the provider behaves as qp.
attestationReport(certFP, qp) ==
  IF qp.kind # "ok"
  THEN [err |-> TRUE, doc |-> NoDoc]
  ELSE LET raw    == GetRawQuote(UserData(certFP), qp.extra)
           report == IF Len(raw) > ReportSize THEN SubSeq(raw, 1, ReportSize) ELSE raw
       IN  [err |-> FALSE,
            doc |-> [Format |-> "SevGuestV1",
                     Body   |-> base64Encode(StdAlphabet, TRUE, report)]]

----------------------------------------------------------------------------
(* Configuration values the model draws from.                              *)

PathRoot   == <<"/">>
PathApi    == <<"/", "a", "p", "i">>
PathApiX   == <<"/", "a", "p", "i", "/", "x">>
PathV1     == <<"/", "v", "1">>
WellKnown  == <<"/", ".", "w", "e", "l", "l", "-", "k", "n", "o", "w", "n", "/",
                "t", "i", "n", "f", "o", "i", "l", "-",
                "a", "t", "t", "e", "s", "t", "a", "t", "i", "o", "n">>

\* Values of -p: the default "", "/api", "/api,/v1".
PFlagValues == {<<>>, PathApi, PathApi \o <<",">> \o PathV1}

\* Values of -H: the default "", "K:v", "K:v,L:w", "K" and "K:v:w".
HFlagValues == {<<>>, <<"K", ":", "v">>, <<"K", ":", "v", ",", "L", ":", "w">>,
                <<"K">>, <<"K", ":", "v", ":", "w">>}

\* Values of paths: in the YAML file: absent or empty, ["/api"], ["/api", "/v1"].
YamlPathValues == {<<>>, <<PathApi>>, <<PathApi, PathV1>>}

Methods == {"GET", "OPTIONS", "POST"}

\* Paths of requests the mux hands to the "/" handler.
RootPaths == {PathRoot, PathApi, PathApiX, PathV1}

NoRequest == [method |-> "", path |-> <<>>]
NoResponse == Response(NewWriter)

\* The header map main() builds from -H, or the fatal error of a malformed pair.
ParseHeaders(flag) ==
  LET headerPairs == Split(flag, ",")
      parts(i)    == Split(headerPairs[i], ":")
      n           == Len(headerPairs)
  IN  IF \E i \in 1..n : Len(parts(i)) # 2
      THEN [fatal |-> TRUE, map |-> {}]
      ELSE [fatal |-> FALSE,
            map   |-> {<<parts(i)[1], parts(i)[2]>> : i \in
                         {i \in 1..n : \A j \in (i+1)..n : parts(j)[1] # parts(i)[1]}}]

\* The list the "/" handler ranges over.
PathsOf(v, p, yamlPaths) == IF v = "yaml" THEN yamlPaths ELSE Split(p, ",")

----------------------------------------------------------------------------
(* main(): start-up, then the server.                                      *)

KeyIdle ==
  /\ verifier = [ok |-> FALSE, publicKey |-> <<>>]
  /\ apiKey = <<>>
  /\ now = [sec |-> 0, nsec |-> 0]
  /\ result = "none"

InitShim ==
  /\ variant \in {"main", "cache", "yaml"}
  /\ flagP \in IF variant = "yaml" THEN {<<>>} ELSE PFlagValues
  /\ flagH \in IF variant = "main" THEN HFlagValues ELSE {<<>>}
  /\ cfgPaths \in IF variant = "yaml" THEN YamlPathValues ELSE {<<>>}
  /\ pc = "start"
  /\ fatal = ""
  /\ headerMap = {}
  /\ paths = <<>>
  /\ tlsCert = 0
  /\ cert = 0
  /\ quoteData = <<>>
  /\ att = NoDoc
  /\ builds = 0
  /\ accepted = FALSE
  /\ req = NoRequest
  /\ resp = NoResponse
  /\ forwarded = NoForward
  /\ KeyIdle

\* flag.Parse up to the log line "Starting SEV-SNP attestation shim": the domain
\* (or the config file) is read, which fails when envOK is FALSE; main.go then
\* parses -H; the path list is built.
Configure(envOK) ==
  /\ pc = "start"
  /\ LET hp == IF variant = "main" THEN ParseHeaders(flagH)
               ELSE [fatal |-> FALSE, map |-> {}]
     IN  IF ~envOK \/ hp.fatal
         THEN /\ pc' = "exited"
              /\ fatal' = IF ~envOK THEN "config" ELSE "header"
              /\ UNCHANGED <<headerMap, paths>>
         ELSE /\ pc' = "configured"
              /\ fatal' = fatal
              /\ headerMap' = hp.map
              /\ paths' = PathsOf(variant, flagP, cfgPaths)
  /\ UNCHANGED <<variant, flagP, flagH, cfgPaths, tlsCert, cert, quoteData, att, builds,
                 accepted, req, resp, forwarded, keyVars>>

\* certmagic.TLS, then tlsConfig.GetCertificate: either may fail, which is fatal.
ObtainCertificate(c, outcome) ==
  /\ pc = "configured"
  /\ IF outcome = "tlsFails"
     THEN pc' = "exited" /\ fatal' = "tls" /\ UNCHANGED <<tlsCert, cert>>
     ELSE IF outcome = "getFails"
     THEN pc' = "exited" /\ fatal' = "certificate" /\ tlsCert' = c /\ UNCHANGED cert
     ELSE pc' = "certified" /\ fatal' = fatal /\ tlsCert' = c /\ cert' = c
  /\ UNCHANGED <<variant, flagP, flagH, cfgPaths, headerMap, paths, quoteData, att,
                 builds, accepted, req, resp, forwarded, keyVars>>

\* The fingerprint of the certificate main() holds, then attestationReport.
FetchAttestation(qp) ==
  /\ pc = "certified"
  /\ LET certFP    == Sum256(LeafRaw(cert))
         certFPHex == hexEncodeToString(certFP)
         r         == attestationReport(certFPHex, qp)
     IN  IF r.err
         THEN /\ pc' = "exited"
              /\ fatal' = "attestation"
              /\ quoteData' = IF qp.kind = "quoteError" THEN UserData(certFPHex) ELSE quoteData
              /\ UNCHANGED <<att, builds>>
         ELSE /\ pc' = "attested"
              /\ fatal' = fatal
              /\ quoteData' = UserData(certFPHex)
              /\ att' = r.doc
              /\ builds' = builds + 1
  /\ UNCHANGED <<variant, flagP, flagH, cfgPaths, headerMap, paths, tlsCert, cert,
                 accepted, req, resp, forwarded, keyVars>>

\* The handlers are registered and ListenAndServeTLS is called; it returns at
\* once, and log.Fatal ends the process, when the address cannot be bound.
Listen(bound) ==
  /\ pc = "attested"
  /\ pc' = IF bound THEN "listening" ELSE "exited"
  /\ fatal' = IF bound THEN fatal ELSE "listen"
  /\ UNCHANGED <<variant, flagP, flagH, cfgPaths, headerMap, paths, tlsCert, cert,
                 quoteData, att, builds, accepted, req, resp, forwarded, keyVars>>

\* A request for any path but the well-known one: the "/" handler.
HandleRoot(r, up) ==
  /\ pc = "listening"
  /\ LET h == rootHandler(variant, paths, headerMap, r, up)
     IN  /\ resp' = Response(h.w)
         /\ forwarded' = h.fwd
  /\ req' = r
  /\ accepted' = TRUE
  /\ UNCHANGED <<variant, flagP, flagH, cfgPaths, pc, fatal, headerMap, paths, tlsCert,
                 cert, quoteData, att, builds, keyVars>>

\* A request for /.well-known/tinfoil-attestation.
HandleAttestation(r) ==
  /\ pc = "listening"
  /\ resp' = Response(attestationHandler(variant, att, r))
  /\ forwarded' = NoForward
  /\ req' = r
  /\ accepted' = TRUE
  /\ UNCHANGED <<variant, flagP, flagH, cfgPaths, pc, fatal, headerMap, paths, tlsCert,
                 cert, quoteData, att, builds, keyVars>>

\* certmagic renews the certificate in the background; main() is not told.
RenewCertificate(c) ==
  /\ pc \in {"certified", "attested", "listening"}
  /\ c # tlsCert
  /\ tlsCert' = c
  /\ UNCHANGED <<variant, flagP, flagH, cfgPaths, pc, fatal, headerMap, paths, cert,
                 quoteData, att, builds, accepted, req, resp, forwarded, keyVars>>

NextShim ==
  \/ \E envOK \in BOOLEAN : Configure(envOK)
  \/ \E c \in Certs, outcome \in {"tlsFails", "getFails", "ok"} : ObtainCertificate(c, outcome)
  \/ \E qp \in QuoteProviders : FetchAttestation(qp)
  \/ \E bound \in BOOLEAN : Listen(bound)
  \/ \E m \in Methods, p \in RootPaths, up \in {200, 404, 502} :
       HandleRoot([method |-> m, path |-> p], up)
  \/ \E m \in Methods : HandleAttestation([method |-> m, path |-> WellKnown])
  \/ \E c \in Certs : RenewCertificate(c)

SpecShim == InitShim /\ [][NextShim]_vars

----------------------------------------------------------------------------
(* Fixed-width integers.  A value of n bytes is a big-endian sequence of n *)
(* bytes, as binary.BigEndian lays it out; signed values are two's         *)
(* complement.  Go's int64 and time.Duration arithmetic wraps at 8 bytes;  *)
(* 16 bytes hold every intermediate value exactly.                         *)

Zero(n) == Tuple([k \in 1..n |-> 0])

\* The n-byte value of a number 0 <= v < 2^31.
FromInt(v, n) ==
  Tuple([k \in 1..n |->
     IF n - k = 0 THEN v % 256
     ELSE IF n - k = 1 THEN (v \div 256) % 256
     ELSE IF n - k = 2 THEN (v \div 65536) % 256
     ELSE IF n - k = 3 THEN (v \div 16777216) % 256
     ELSE 0])

IsNeg(a) == a[1] >= 128

\* Conversion to a wider type: int64 extends the sign, uint64 extends with zeros.
SignExtend(a, n) ==
  Tuple([k \in 1..n |-> IF k > n - Len(a) THEN a[k - (n - Len(a))]
                        ELSE IF IsNeg(a) THEN 255 ELSE 0])
ZeroExtend(a, n) ==
  Tuple([k \in 1..n |-> IF k > n - Len(a) THEN a[k - (n - Len(a))] ELSE 0])

\* Conversion to a narrower type keeps the low bytes.
Truncate(a, n) == SubSeq(a, Len(a) - n + 1, Len(a))

\* a + b, wrapping at the width of a.
AddW(a, b) ==
  LET n == Len(a)
      carry[k \in 1..(n + 1)] ==
        IF k = n + 1 THEN 0 ELSE (a[k] + b[k] + carry[k + 1]) \div 256
  IN  Tuple([k \in 1..n |-> (a[k] + b[k] + carry[k + 1]) % 256])

NegW(a) == AddW(Tuple([k \in 1..Len(a) |-> 255 - a[k]]), FromInt(1, Len(a)))

SubW(a, b) == AddW(a, NegW(b))

\* a * b, wrapping at the width of a: the schoolbook product, low bytes kept.
MulW(a, b) ==
  LET n == Len(a)
      la(i) == a[n - i]
      lb(i) == b[n - i]
      col[k \in 0..(n - 1)] ==
        LET part[i \in 0..k] ==
              la(i) * lb(k - i) + (IF i = 0 THEN 0 ELSE part[i - 1])
        IN  part[k]
      acc[k \in 0..(n - 1)] == col[k] + (IF k = 0 THEN 0 ELSE acc[k - 1] \div 256)
  IN  Tuple([k \in 1..n |-> acc[n - k] % 256])

\* Unsigned and signed comparison of values of one width.
LessU(a, b) ==
  \E k \in 1..Len(a) : a[k] < b[k] /\ \A j \in 1..(k - 1) : a[j] = b[j]

LessS(a, b) ==
  IF IsNeg(a) # IsNeg(b) THEN IsNeg(a) ELSE LessU(a, b)

\* Constants of package time, as int64: unixToInternal = 62135596800 seconds,
\* Second = 1000000000 nanoseconds, and the least and greatest Duration.
unixToInternal == <<0, 0, 0, 14, 119, 145, 247, 0>>
Second         == <<0, 0, 0, 0, 59, 154, 202, 0>>
minDuration    == <<128, 0, 0, 0, 0, 0, 0, 0>>
maxDuration    == <<127, 255, 255, 255, 255, 255, 255, 255>>

----------------------------------------------------------------------------
(* Package key: the layout of an API key and the Verifier.                 *)

nonceSize     == 16
timestampSize == 8
validitySize  == 8
signatureSize == 64
totalSize     == nonceSize + timestampSize + validitySize + signatureSize

\* ed25519.PublicKeySize
PublicKeySize == 32

\* NewVerifier: the key text is decoded and stored, whatever its length.
NewVerifier(publicKey) ==
  LET d == base64Decode(URLAlphabet, FALSE, publicKey)
  IN  [ok |-> d.ok, publicKey |-> d.data]

\* The signature the holder of the key pair pk makes over message.  It stands
\* for Ed25519: 64 bytes that are a function of the key and the message; the
\* bytes are not those of Ed25519.
ed25519Sign(pk, message) ==
  Tuple([i \in 1..signatureSize |-> (WeightedSum(pk \o message, 1, i) + 3 * i) % 256])

\* ed25519.Verify panics on a public key that is not PublicKeySize bytes long.
ed25519Verify(pk, message, sig) ==
  IF Len(pk) # PublicKeySize
  THEN [panic |-> TRUE, ok |-> FALSE]
  ELSE [panic |-> FALSE, ok |-> sig = ed25519Sign(pk, message)]

\* time.Unix(sec, 0): the seconds since year 1, an int64 sum that wraps.
timeUnix(sec) == AddW(sec, unixToInternal)

\* time.Since(t) read at wall clock c = [sec, nsec]: the difference in
\* nanoseconds, or the least or greatest Duration when it does not fit one.
timeSince(t, c) ==
  LET nowSec == AddW(FromInt(c.sec, 16), ZeroExtend(unixToInternal, 16))
      dSec   == SubW(nowSec, SignExtend(t, 16))
      d      == AddW(MulW(dSec, ZeroExtend(Second, 16)), FromInt(c.nsec, 16))
  IN  IF LessS(d, SignExtend(minDuration, 16)) THEN minDuration
      ELSE IF LessS(SignExtend(maxDuration, 16), d) THEN maxDuration
      ELSE Truncate(d, 8)

\* Expired with >= in place of >: a token is refused at its last valid instant.
ExpiredAtBoundary(tsBytes, valBytes, c) ==
  ~LessS(timeSince(timeUnix(tsBytes), c), MulW(valBytes, Second))

\* The expiry test of Verify on the two 8-byte fields, at wall clock c.
Expired(tsBytes, valBytes, c) ==
  LET timestamp == tsBytes
      validity  == valBytes
  IN  LessS(MulW(validity, Second), timeSince(timeUnix(timestamp), c))

\* (*Verifier).Verify at wall clock c: the error returned, "nil", or "panic".
Verify(v, key, c) ==
  LET d == base64Decode(URLAlphabet, FALSE, key)
  IN  IF ~d.ok THEN "ErrInvalidKeyFormat"
      ELSE IF Len(d.data) # totalSize THEN "ErrInvalidKeyLength"
      ELSE LET data      == d.data
               split     == nonceSize + timestampSize + validitySize
               message   == SubSeq(data, 1, split)
               signature == SubSeq(data, split + 1, Len(data))
               tsBytes   == SubSeq(data, nonceSize + 1, nonceSize + timestampSize)
               valBytes  == SubSeq(data, nonceSize + timestampSize + 1, split)
           IN  IF Expired(tsBytes, valBytes, c) THEN "ErrAPIKeyExpired"
               ELSE LET e == ed25519Verify(v.publicKey, message, signature)
                    IN  IF e.panic THEN "panic"
                        ELSE IF ~e.ok THEN "ErrInvalidSignature"
                        ELSE "nil"

----------------------------------------------------------------------------
(* Keys, clocks and tokens the model draws from.                           *)

\* The wall clock, in seconds since the epoch, around which tokens are issued.
BaseTime == 1700000000

IssuerKey == Tuple([i \in 1..PublicKeySize |-> (5 * i) % 256])
OtherKey  == Tuple([i \in 1..PublicKeySize |-> (11 * i + 1) % 256])
ShortKey  == <<1, 2, 3>>

\* Public key texts: two keys of 32 bytes, one of 3 bytes, the empty text, and
\* a text that is not base64.
KeyTexts == {base64Encode(URLAlphabet, FALSE, IssuerKey),
             base64Encode(URLAlphabet, FALSE, OtherKey),
             base64Encode(URLAlphabet, FALSE, ShortKey),
             <<>>,
             <<"A", "=", "A", "A">>}

\* The clock at a Verify call.
Clocks == {[sec |-> BaseTime, nsec |-> 0], [sec |-> BaseTime, nsec |-> 1],
           [sec |-> BaseTime, nsec |-> 999999999], [sec |-> BaseTime + 1, nsec |-> 0]}

\* issuedAt: 61, 60 and 59 seconds before BaseTime, BaseTime, 100 seconds after
\* it, 2^63-1-unixToInternal, 2^63-unixToInternal, 2^63 and 2^64-1.
IssuedAtValues ==
  {FromInt(BaseTime - 61, 8), FromInt(BaseTime - 60, 8), FromInt(BaseTime - 59, 8),
   FromInt(BaseTime, 8), FromInt(BaseTime + 100, 8),
   <<127, 255, 255, 241, 136, 110, 8, 255>>, <<127, 255, 255, 241, 136, 110, 9, 0>>,
   <<128, 0, 0, 0, 0, 0, 0, 0>>, <<255, 255, 255, 255, 255, 255, 255, 255>>}

\* validitySeconds: 0, 60, 9223372036, 9223372037, 2^63 and 2^64-1.
ValidityValues ==
  {FromInt(0, 8), FromInt(60, 8),
   <<0, 0, 0, 2, 37, 193, 125, 4>>, <<0, 0, 0, 2, 37, 193, 125, 5>>,
   <<128, 0, 0, 0, 0, 0, 0, 0>>, <<255, 255, 255, 255, 255, 255, 255, 255>>}

\* The bytes of a token signed with the key pair of public key pk.
TokenBytes(issuedAt, validity, pk) ==
  LET message == Zero(nonceSize) \o issuedAt \o validity
  IN  message \o ed25519Sign(pk, message)

WellFormedTokens ==
  {base64Encode(URLAlphabet, FALSE, TokenBytes(i, v, pk)) :
     i \in IssuedAtValues, v \in ValidityValues, pk \in {IssuerKey, OtherKey}}

\* An expired token with a wrong signature, cut or broken in transport: one byte
\* short, one byte long, a character outside the alphabet, a lone last character.
StaleForged == TokenBytes(FromInt(BaseTime - 61, 8), FromInt(60, 8), OtherKey)

MalformedTokens ==
  {base64Encode(URLAlphabet, FALSE, SubSeq(StaleForged, 1, totalSize - 1)),
   base64Encode(URLAlphabet, FALSE, StaleForged \o <<0>>),
   [base64Encode(URLAlphabet, FALSE, StaleForged) EXCEPT ![1] = "+"],
   base64Encode(URLAlphabet, FALSE, StaleForged) \o <<"A">>,
   <<>>}

Tokens == WellFormedTokens \cup MalformedTokens

----------------------------------------------------------------------------
(* A caller of package key: builds a Verifier, then verifies tokens.       *)

ShimIdle ==
  /\ variant = "main" /\ flagP = <<>> /\ flagH = <<>> /\ cfgPaths = <<>>
  /\ pc = "start" /\ fatal = "" /\ headerMap = {} /\ paths = <<>> /\ tlsCert = 0 /\ cert = 0
  /\ quoteData = <<>> /\ att = NoDoc /\ builds = 0 /\ accepted = FALSE
  /\ req = NoRequest /\ resp = NoResponse /\ forwarded = NoForward

InitKey ==
  /\ ShimIdle
  /\ KeyIdle

\* NewVerifier(text): on an error the caller has no Verifier.
CallNewVerifier(text) ==
  /\ ~verifier.ok
  /\ result = "none"
  /\ verifier' = NewVerifier(text)
  /\ UNCHANGED <<apiKey, now, result, shimVars>>

\* v.Verify(key) with the clock reading c.
CallVerify(key, c) ==
  /\ verifier.ok
  /\ result = "none"
  /\ apiKey' = key
  /\ now' = c
  /\ result' = Verify(verifier, key, c)
  /\ UNCHANGED <<verifier, shimVars>>

\* The caller has acted on the outcome and drops the token.
Discard ==
  /\ result # "none"
  /\ apiKey' = <<>>
  /\ now' = [sec |-> 0, nsec |-> 0]
  /\ result' = "none"
  /\ UNCHANGED <<verifier, shimVars>>

NextKey ==
  \/ \E text \in KeyTexts : CallNewVerifier(text)
  \/ \E key \in Tokens, c \in Clocks : CallVerify(key, c)
  \/ Discard

SpecKey == InitKey /\ [][NextKey]_vars

----------------------------------------------------------------------------
(* Properties of the shim, checked under SpecShim.                         *)

\* The request handled last went to the "/" handler, or to the attestation handler.
RootServed == req # NoRequest /\ req.path # WellKnown
AttestationServed == req # NoRequest /\ req.path = WellKnown

\* No allowed paths are configured: -p at its default, or no paths in the YAML.
NoPathsConfigured == IF variant = "yaml" THEN cfgPaths = <<>> ELSE flagP = <<>>

CorsHeaders(r) ==
  /\ r.header["Access-Control-Allow-Origin"] = <<"*">>
  /\ r.header["Access-Control-Allow-Methods"] = <<"*">>
  /\ r.header["Access-Control-Allow-Headers"] = <<"*">>

\* C1: with no allowed paths configured, no request to the "/" handler is answered
\* 403 by the path gate, and every such request reaches the reverse proxy.
C1_UnconfiguredGateAdmitsAll ==
  (RootServed /\ NoPathsConfigured) => (resp.status # 403 /\ forwarded # NoForward)

\* C4: an OPTIONS request to the attestation endpoint gets status 200, the three
\* wildcard CORS headers and an empty body; the status is written once and the
\* document is not written.
C4_PreflightShortCircuits ==
  (AttestationServed /\ req.method = "OPTIONS") =>
     /\ resp.status = 200
     /\ CorsHeaders(resp)
     /\ resp.body = <<>>
     /\ resp.calls = 1

\* The ASCII code of the lowercase hex digit of a nibble.
LowerHexDigit(x) == IF x < 10 THEN 48 + x ELSE 87 + x

\* ud holds, in its 64 bytes, the lowercase hex text of the 32-byte digest.
HoldsHexOf(ud, digest) ==
  /\ Len(ud) = 64
  /\ \A i \in 1..32 : /\ ud[2*i - 1] = LowerHexDigit(digest[i] \div 16)
                      /\ ud[2*i]     = LowerHexDigit(digest[i] % 16)

\* The REPORT_DATA field of the report a document carries.
ReportDataOf(doc) ==
  LET d == base64Decode(StdAlphabet, TRUE, doc.Body)
  IN  IF d.ok /\ Len(d.data) >= ReportDataOffset + 64
      THEN SubSeq(d.data, ReportDataOffset + 1, ReportDataOffset + 64)
      ELSE <<>>

C5_State ==
  /\ accepted => pc = "listening"
  /\ fatal # "" => (pc = "exited" /\ ~accepted)
  /\ pc = "listening" =>
       /\ att # NoDoc
       /\ builds = 1
       /\ HoldsHexOf(quoteData, Sum256(LeafRaw(cert)))
       /\ ReportDataOf(att) = quoteData

C5_Step == (att # NoDoc) => (att' = att /\ builds' = builds /\ cert' = cert)

\* C5: whenever the server accepts requests, the attestation document exists and is
\* the one built before listening from the 64 bytes of lowercase hex text of the
\* digest of the certificate read at start-up; it is built once and never changes,
\* also when the certificate is renewed; a start-up failure ends the process
\* before any request is accepted.
C5_DocumentBoundOnceAtStartup == [](C5_State) /\ [][C5_Step]_vars

\* C5's case: a GET of the document served after the certificate was renewed.
C5_Witness ==
  /\ pc = "listening"
  /\ tlsCert # cert
  /\ AttestationServed /\ req.method = "GET"
  /\ resp.body = <<JSONChunk(att)>>

\* Allowed paths are configured.
PathsConfigured == ~NoPathsConfigured

\* C6: with allowed paths configured, a request to the "/" handler is forwarded
\* exactly when its path equals one configured entry; any other request gets
\* status 403 with the message "shim: 403" and is not forwarded.
C6_ExactMatchOr403 ==
  (RootServed /\ PathsConfigured) =>
     IF \E i \in 1..Len(paths) : req.path = paths[i]
     THEN forwarded # NoForward
     ELSE /\ forwarded = NoForward
          /\ resp.status = 403
          /\ resp.body # <<>> /\ resp.body[1] = TextChunk("shim: 403")

\* C7: every GET response of the attestation endpoint has status 200, the header
\* Content-Type: application/json and the three wildcard CORS headers, each once.
C7_GetHeadersSent ==
  (AttestationServed /\ req.method = "GET") =>
     /\ resp.status = 200
     /\ resp.header["Content-Type"] = <<"application/json">>
     /\ CorsHeaders(resp)

\* C9: in the variant with -H, with -H at its default the start-up does not fail in
\* header parsing, and forwarded requests carry no injected header.
C9_NoHeadersIsAccepted ==
  (variant = "main" /\ flagH = <<>>) =>
     /\ fatal # "header"
     /\ forwarded # NoForward => forwarded.added = {}

----------------------------------------------------------------------------
(* Properties of the Verifier, checked under SpecKey.                      *)

Verified == result # "none"

\* The decoded token of the last Verify call, and its parts.
Decoded == base64Decode(URLAlphabet, FALSE, apiKey)
RightLength == Decoded.ok /\ Len(Decoded.data) = totalSize
MessageOf(data) == SubSeq(data, 1, nonceSize + timestampSize + validitySize)
SignatureOf(data) == SubSeq(data, nonceSize + timestampSize + validitySize + 1, Len(data))
IssuedAtOf(data) == SubSeq(data, nonceSize + 1, nonceSize + timestampSize)
ValidityOf(data) ==
  SubSeq(data, nonceSize + timestampSize + 1, nonceSize + timestampSize + validitySize)

\* The token has the right length and carries the signature of the Verifier's key,
\* which is a key of 32 bytes.
CorrectlySigned ==
  /\ RightLength
  /\ Len(verifier.publicKey) = PublicKeySize
  /\ SignatureOf(Decoded.data) = ed25519Sign(verifier.publicKey, MessageOf(Decoded.data))

\* C2: the checks run in the order decode, length, expiry, signature, the error of
\* the first failing check is returned, and every call returns nil or one of the
\* four errors.
C2_FirstFailingCheck ==
  Verified =>
    result = IF ~Decoded.ok THEN "ErrInvalidKeyFormat"
             ELSE IF ~RightLength THEN "ErrInvalidKeyLength"
             ELSE IF Expired(IssuedAtOf(Decoded.data), ValidityOf(Decoded.data), now)
                  THEN "ErrAPIKeyExpired"
             ELSE IF SignatureOf(Decoded.data)
                       # ed25519Sign(verifier.publicKey, MessageOf(Decoded.data))
                  THEN "ErrInvalidSignature"
             ELSE "nil"

\* A field below 2^31, and its value.
Small(b) == b[1] = 0 /\ b[2] = 0 /\ b[3] = 0 /\ b[4] = 0 /\ b[5] < 128
ValueOf(b) == b[5] * 16777216 + b[6] * 65536 + b[7] * 256 + b[8]

SmallFields == Small(IssuedAtOf(Decoded.data)) /\ Small(ValidityOf(Decoded.data))
ElapsedSeconds == now.sec - ValueOf(IssuedAtOf(Decoded.data))
ValiditySeconds == ValueOf(ValidityOf(Decoded.data))

\* C3 as stated, on fields below 2^31: a correctly signed token is Expired exactly
\* when the elapsed whole seconds exceed validitySeconds, so a token issued 60
\* seconds ago with validity 60 verifies at any instant of that second.
C3_WholeSeconds ==
  (Verified /\ CorrectlySigned /\ SmallFields) =>
     (result = "ErrAPIKeyExpired" <=> ElapsedSeconds > ValiditySeconds)

\* C3 as amended: for a correctly signed token with fields below 2^31, Verify
\* returns Expired exactly when the elapsed time, to the nanosecond, exceeds
\* validitySeconds, and nil otherwise: the token verifies at issuedAt +
\* validitySeconds exactly and is Expired from the next nanosecond on.
C3_NanosecondBoundary ==
  (Verified /\ CorrectlySigned /\ SmallFields) =>
     LET late == \/ ElapsedSeconds > ValiditySeconds
                 \/ (ElapsedSeconds = ValiditySeconds /\ now.nsec > 0)
     IN  result = IF late THEN "ErrAPIKeyExpired" ELSE "nil"

\* C3's case: 60 whole seconds after issue, one nanosecond on, validity 60: Expired.
C3_Witness ==
  /\ Verified /\ CorrectlySigned /\ SmallFields
  /\ ValiditySeconds = 60 /\ ElapsedSeconds = 60 /\ now.nsec = 1
  /\ result = "ErrAPIKeyExpired"

\* C8: the fields read as unsigned 64-bit seconds, a correctly signed token is
\* Expired only if now - issuedAt exceeds validitySeconds (compared exactly, at
\* the clock's resolution), and never when issuedAt lies in the future.
C8_ExpiryIsExactOnAllFields ==
  (Verified /\ CorrectlySigned /\ result = "ErrAPIKeyExpired") =>
     LET issuedAt == ZeroExtend(IssuedAtOf(Decoded.data), 16)
         validity == ZeroExtend(ValidityOf(Decoded.data), 16)
         elapsed  == AddW(MulW(SubW(FromInt(now.sec, 16), issuedAt), ZeroExtend(Second, 16)),
                          FromInt(now.nsec, 16))
     IN  /\ LessS(MulW(validity, ZeroExtend(Second, 16)), elapsed)
         /\ ~LessS(FromInt(now.sec, 16), issuedAt)

\* C10: Verify of a Verifier that NewVerifier returned ends by returning nil or
\* one of its errors; it does not panic.
C10_VerifyNeverPanics == (verifier.ok /\ Verified) => result # "panic"

====
